---- MODULE Spec2Model ----
(***************************************************************************)
(* ltfserv: the orchestrator (src/src/index.ts), the LiveScheduler         *)
(* (src/src/engine/modelRunner.ts, second half) and the run-history store  *)
(* (src/src/db/runHistory.ts) as one state machine.                        *)
(*                                                                         *)
(* Time is counted in units of the shortest timeframe.  A handler runs     *)
(* atomically up to its next await; every await is a separate step.        *)
(***************************************************************************)
EXTENDS Integers, Sequences, FiniteSets, TLC

\* ---------------------------------------------------------------- bounds
MaxNow    == 3   \* the clock, and the boundaries upstream names, stay within 0..MaxNow
MaxOut    == 3   \* tokens of stdout collected in one call of executeRunner
MaxErr    == 1   \* tokens of stderr collected
MaxSocks  == 3   \* socket objects one UnixSocketClient creates
MaxCalls  == 3   \* calls of connect() and close() by the client's owner
MaxFrames == 2   \* frames upstream writes
MaxOwner  == 3   \* calls of start(), stop() and markFired() by the scheduler's owner
MaxReqs   == 2   \* requests to the REST API
MaxEvents == 2   \* events from outside in one behaviour: upstream messages,
                 \* clock changes, restarts

\* `null` of a number-or-null value (lastRun, runId, getLastRunTs)
NULL == 0 - 1

\* ------------------------------------------------------------- constants
\* modelRunner.ts MTF_TIMEFRAMES, in iteration order.  '15m' stands for the three
\* timeframes index.ts lists too ('15m', '4h', '1d': every handler treats them
\* alike), '7d' for the one only the scheduler and the config know.
MTF_TIMEFRAMES == <<"15m", "7d">>

SchedTFs == {MTF_TIMEFRAMES[i] : i \in 1..Len(MTF_TIMEFRAMES)}

\* modelRunner.ts TF_MS, in model time units
TF_MS == [tf \in SchedTFs |-> IF tf = "15m" THEN 1 ELSE 2]

\* index.ts initLiveScheduler: const tfs, in loop order
InitTFs == <<"15m">>

InitTFSet == {InitTFs[i] : i \in 1..Len(InitTFs)}

\* index.ts BINANCE_INTERVAL: the timeframes a candle fetch is well formed for
BINANCE_INTERVAL == {"15m"}

\* runHistory.ts RETENTION: the keys, and the age (in model time units) up to
\* which a live row is kept
RETENTION == [tf \in {"15m"} |-> 1]

\* the timeframes upstream sends candle batches for
UpstreamTFs == {"15m", "7d"}

\* appSettings MTF_CONFIGS: the timeframes with a model configuration
ConfigTFs == {"15m", "7d"}

\* restApi.ts VALID_TIMEFRAMES
VALID_TIMEFRAMES == {"15m"}

\* the timeframes a message or a request can name: '1h' stands for any
\* string no table of the program knows
AnyTFs == {"15m", "7d", "1h"}

\* the values of a configuration's formula: the one loaded at start, and one a
\* PATCH sets
Formulas == {"f0", "f1"}

\* the clock reading at process start: every timeframe is past its first boundary
StartNow == 2

VARIABLES
  now,          \* Date.now()
  mode,         \* index.ts: let mode
  lastRun,      \* index.ts: const lastRun
  lastFired,    \* LiveScheduler.lastFired (NULL: no entry)
  checkTimer,   \* LiveScheduler.checkTimer holds an armed interval
  leaked,       \* armed intervals no handle refers to any more
  inits,        \* initLiveScheduler calls suspended at an await
  tasks,        \* the handler runs in flight, in start order, each with its
                \* position; one that ended stays for one more step (pc done or
                \* killed) and is then dropped
  db,           \* rows of ss_model_runs
  dbSeq,        \* the id sequence of ss_model_runs
  acked,        \* the (timeframe, boundary) posts the oracle has answered with success
  bcast,        \* the mode messages handed to broadcast(), in order (a run's
                \* message is recorded on the run)
  emitted,      \* history: boundaries emitted per timeframe since the last start()
  lastStart,    \* history: what the last LiveScheduler.start() was given and did
  nEv,          \* events from outside so far
  dropped       \* history: which handlers have returned early on an event

\* one call of executeRunner (modelRunner.ts), followed on its own
VARIABLES
  child,        \* the spawned process: none | alive | spawnfail (spawn failed,
                \* 'error' not yet emitted) | errored | killed | closed
  stdout,       \* let stdout: the text collected, as a sequence of tokens
  stderr,       \* let stderr
  settled,      \* let settled
  timeout,      \* the timer of setTimeout is pending
  result,       \* what the promise was settled with
  settles       \* calls of resolve and reject so far

\* one UnixSocketClient (part_002), followed on its own
VARIABLES
  socket,         \* this.socket: the socket object held, or null
  partial,        \* this.partial
  reconnectTimer, \* this.reconnectTimer holds a timer
  connected,      \* this.connected
  socks,          \* the socket objects created so far, each opening | open |
                  \* destroyed ('close' not yet emitted) | closed
  timers,         \* reconnect timeouts pending in the runtime
  emits,          \* the events the client emitted in the last step, in order
                  \* ("warn": a warning it logged)
  wire,           \* the bytes upstream has written and the client has not yet read
  rx,             \* history: the bytes received since the last 'connect' event
  got,            \* history: the messages dispatched since the last 'connect'
                  \* event, each as its type followed by its payload
  nSent,          \* frames upstream has written
  nCalls,         \* calls of connect() and close() by the owner
  closing         \* history: the owner's last call was close()

\* the REST API (restApi.ts), the configuration it edits, and the process
VARIABLES
  cfg,          \* settings.mtfConfigs: the formula configured per timeframe
  http,         \* history: the route and status of the last response sent
  nReq,         \* requests served so far
  down          \* the process has met an unhandled promise rejection

\* one LiveScheduler driven by an owner that calls its methods in any order
VARIABLES
  stopped,      \* history: the owner's last call of start() or stop() was stop()
  marked,       \* history: the greatest boundary given to markFired per
                \* timeframe since the last start()
  nOwn          \* calls by the owner so far

\* the variables of the runner call
rvars == <<child, stdout, stderr, settled, timeout, result, settles>>

\* the variables of the socket client
svars == <<socket, partial, reconnectTimer, connected, socks, timers, emits, rx, got,
           wire, nSent, nCalls, closing>>

\* the variables of the REST API and the process
avars == <<cfg, http, nReq, down>>

\* the variables of the scheduler's owner
qvars == <<stopped, marked, nOwn>>

\* the variables of the orchestrator leave these alone
xvars == <<rvars, svars, avars, qvars>>

vars == <<now, mode, lastRun, lastFired, checkTimer, leaked, inits, tasks, db,
          dbSeq, acked, bcast, emitted, lastStart, nEv, dropped, xvars>>

\* the variables of the orchestrator
ovars == <<now, mode, lastRun, lastFired, checkTimer, leaked, inits, tasks, db,
           dbSeq, acked, bcast, emitted, lastStart, nEv, dropped>>

\* the identifiers the oracle answers a post with
OracleIds == {1, 2}

\* ------------------------------------------------------------ scheduler
\* check() without Math.floor: the clock reading itself
Unfloored(tf, t) == t

\* check(): Math.floor(now / ms) * ms
Boundary(tf, t) == (t \div TF_MS[tf]) * TF_MS[tf]

\* the comparison of check() with >= for >
FiresAgain(lf, tf) == Boundary(tf, now) >= (IF lf[tf] = NULL THEN 0 ELSE lf[tf])

\* check(): boundary > (this.lastFired.get(tf) ?? 0), against last-fired map lf
Fires(lf, tf) == Boundary(tf, now) > (IF lf[tf] = NULL THEN 0 ELSE lf[tf])

\* the timeframes one check() emits a trigger for, in emission order
Firing(lf) == SelectSeq(MTF_TIMEFRAMES, LAMBDA tf : Fires(lf, tf))

\* a handler without its mode gate
Ungated == TRUE

\* scheduler.on('trigger'): if (mode !== 'live') return
TriggerAccepted == mode = "live"

\* upstream.on('mtf_candles'): if (mode !== 'paper') return
CandlesAccepted == mode = "paper"

\* a handler run: the event it serves and its position
\*   pc:  fetch | runner | insert | inserted | oracle | done | killed
\*   empty: runModel was given no candles; out: how runModel ended; nb, bid: the run broadcasts made and the runId of
\*   the last; ack, ackId: the oracle's answer; rep: the reportError location;
\*   fin: the formula buildRunnerInput read; frec: the formula insertRun read
NewTask(tf, b, src, via, pc) ==
  [tf |-> tf, b |-> b, src |-> src, via |-> via, modeAt |-> mode, pc |-> pc,
   empty |-> FALSE, out |-> "", runId |-> NULL, nb |-> 0, bid |-> NULL, ack |-> "none",
   ackId |-> NULL, rep |-> "", fin |-> "", frec |-> ""]

Alive(t) == t.pc # "done" /\ t.pc # "killed"

\* the runs still in flight
Reap(ts) == SelectSeq(ts, Alive)

\* the runs in flight, run i of tasks replaced by t
Upd(i, t) ==
  LET dead == {j \in 1..Len(tasks) : ~Alive(tasks[j])}
      at(k) == CHOOSE j \in (1..Len(tasks)) \ dead :
                 j - Cardinality({d \in dead : d < j}) = k
  IN  [k \in 1..(Len(tasks) - Cardinality(dead)) |->
         IF at(k) = i THEN t ELSE tasks[at(k)]]

\* the handler runs one check() starts: one per emitted trigger, while live
TriggerTasks(lf) ==
  IF TriggerAccepted
  THEN [i \in 1..Len(Firing(lf)) |->
          NewTask(Firing(lf)[i], Boundary(Firing(lf)[i], now), "live", "sched", "fetch")]
  ELSE <<>>

\* check() against last-fired map lf and this cycle's emissions em, with the
\* 'trigger' listeners run synchronously by emit()
Check(lf, em) ==
  /\ lastFired' = [tf \in SchedTFs |->
                     IF Fires(lf, tf) THEN Boundary(tf, now) ELSE lf[tf]]
  /\ emitted' = [tf \in SchedTFs |->
                   IF Fires(lf, tf) THEN Append(em[tf], Boundary(tf, now)) ELSE em[tf]]
  /\ tasks' = Reap(tasks) \o TriggerTasks(lf)
  /\ dropped' = IF Firing(lf) # <<>> /\ ~TriggerAccepted
                THEN dropped \cup {"sched"} ELSE dropped

\* start(): the last-fired map after the seeding loop
Seeded(initial) ==
  [tf \in SchedTFs |->
     IF tf \in DOMAIN initial /\ initial[tf] # NULL THEN initial[tf] ELSE lastFired[tf]]

NoEmissions == [tf \in SchedTFs |-> <<>>]

\* start(initialLastRun): seed, arm a new interval (the handle of an interval
\* still armed is overwritten), check at once
Start(initial, seen, origin) ==
  /\ checkTimer' = TRUE
  /\ leaked' = IF checkTimer THEN leaked + 1 ELSE leaked
  /\ lastStart' = [origin |-> origin, initial |-> initial, seen |-> seen,
                   lf |-> Seeded(initial)]
  /\ Check(Seeded(initial), NoEmissions)

\* stop(): clearInterval(this.checkTimer); this.checkTimer = null
Stop == checkTimer' = FALSE

\* the setInterval callback of any armed interval
TimerFire ==
  /\ checkTimer \/ leaked > 0
  /\ Check(lastFired, emitted)
  /\ UNCHANGED <<now, mode, lastRun, checkTimer, leaked, inits, db, dbSeq,
                 acked, bcast, lastStart, nEv>>

\* the owner has called nothing yet
OwnerIdle ==
  /\ stopped = FALSE
  /\ marked = [tf \in SchedTFs |-> NULL]
  /\ nOwn = 0

\* the owner calls a method of the scheduler
OwnerCall == nOwn < MaxOwner /\ nOwn' = nOwn + 1

\* the owner calls start(initialLastRun)
OwnerStart(initial) ==
  /\ OwnerCall
  /\ Start(initial, initial, "owner")
  /\ stopped' = FALSE
  /\ marked' = [tf \in SchedTFs |-> NULL]
  /\ UNCHANGED <<now, mode, lastRun, inits, db, dbSeq, acked, bcast, nEv>>
  /\ UNCHANGED <<rvars, svars, avars>>

\* the owner calls stop()
OwnerStop ==
  /\ OwnerCall
  /\ Stop
  /\ stopped' = TRUE
  /\ tasks' = Reap(tasks)
  /\ UNCHANGED <<now, mode, lastRun, lastFired, leaked, inits, db, dbSeq, acked,
                 bcast, emitted, lastStart, nEv, dropped, marked>>
  /\ UNCHANGED <<rvars, svars, avars>>

\* markFired(tf, boundaryTs): this.lastFired.set(tf, boundaryTs)
MarkFired(tf, b) ==
  /\ OwnerCall
  /\ lastFired' = [lastFired EXCEPT ![tf] = b]
  /\ marked' = [marked EXCEPT ![tf] = IF b > @ THEN b ELSE @]
  /\ tasks' = Reap(tasks)
  /\ UNCHANGED <<now, mode, lastRun, checkTimer, leaked, inits, db, dbSeq, acked,
                 bcast, emitted, lastStart, nEv, dropped, stopped>>
  /\ UNCHANGED <<rvars, svars, avars>>

\* ------------------------------------------------------------ run history
Max(S) == CHOOSE x \in S : \A y \in S : y <= x

Rows(d, tf, b, src) == {r \in d : r.tf = tf /\ r.b = b /\ r.src = src}

\* getLastRunTs: ORDER BY boundary_ts DESC LIMIT 1, null on no row
DbMax(tf, src) ==
  LET S == {r.b : r \in {x \in db : x.tf = tf /\ x.src = src}}
  IN  IF S = {} THEN NULL ELSE Max(S)

\* the INSERT of insertRun without its ON CONFLICT clause (and without the
\* unique index it names)
InsertOnly(d, tf, b, src) ==
  d \cup {[id |-> dbSeq + 1, tf |-> tf, b |-> b, src |-> src, upd |-> FALSE]}

\* insertRun: INSERT ... ON CONFLICT (timeframe, boundary_ts, source) DO UPDATE;
\* upd records that the row's formula, args and output were overwritten
Upsert(d, tf, b, src) ==
  IF Rows(d, tf, b, src) # {}
  THEN (d \ Rows(d, tf, b, src))
         \cup {[r EXCEPT !.upd = TRUE] : r \in Rows(d, tf, b, src)}
  ELSE d \cup {[id |-> dbSeq + 1, tf |-> tf, b |-> b, src |-> src, upd |-> FALSE]}

\* insertRun: RETURNING id
UpsertId(d, tf, b, src) ==
  IF Rows(d, tf, b, src) # {}
  THEN (CHOOSE r \in Rows(d, tf, b, src) : TRUE).id
  ELSE dbSeq + 1

\* insertRun: DELETE ... WHERE timeframe = $1 AND source = 'live'
\*            AND boundary_ts < NOW() - INTERVAL RETENTION[timeframe]
Prune(d, tf) ==
  {r \in d : ~(r.tf = tf /\ r.src = "live" /\ r.b < now - RETENTION[tf])}

\* ------------------------------------------------------------------ runs
\* runModel without its first statement (if (candles.length === 0) return)
RunModelUnchecked(t, empty) == [t EXCEPT !.empty = empty, !.pc = "runner"]

\* runModel up to its first await: the empty-candles return; config.formula
\* of line 109, outside the try block, which throws a TypeError when
\* settings.mtfConfigs has no entry for tf; else buildRunnerInput and the runner
RunModelStart(t, empty) ==
  IF empty THEN [t EXCEPT !.empty = TRUE, !.pc = "done", !.out = "empty"]
  ELSE IF t.tf \notin ConfigTFs THEN [t EXCEPT !.pc = "done", !.out = "threw"]
  ELSE [t EXCEPT !.pc = "runner", !.fin = cfg[t.tf]]

\* the trigger handler's catch block around await runModel(...)
Caught(t) ==
  IF t.out = "threw" THEN [t EXCEPT !.out = "fetchfail", !.rep = "liveScheduler"]
  ELSE t

\* the trigger handler's catch block: reportError('liveScheduler/tf')
FetchFailed(t) ==
  [t EXCEPT !.pc = "done", !.out = "fetchfail",
            !.rep = IF t.via = "sched" THEN "liveScheduler" ELSE ""]

\* fetchBinanceCandles settles for the trigger handler;
\* a timeframe BINANCE_INTERVAL has no entry for is asked as interval=undefined
FetchDone(i, ok, empty) ==
  /\ tasks[i].pc = "fetch"
  /\ ok => tasks[i].tf \in BINANCE_INTERVAL
  /\ tasks' = Upd(i, IF ok THEN Caught(RunModelStart(tasks[i], empty))
                     ELSE FetchFailed(tasks[i]))
  /\ UNCHANGED <<now, mode, lastRun, lastFired, checkTimer, leaked, inits, db,
                 dbSeq, acked, bcast, emitted, lastStart, nEv, dropped>>

\* runModel line 119, reached when executeRunner resolves
LastRunAfterRunner(i) == [lastRun EXCEPT ![tasks[i].tf] = tasks[i].b]

\* runModel's catch block without its reportError call
RunnerFailedUnreported(t) == [t EXCEPT !.pc = "done", !.out = "runnerfail"]

\* runModel's catch block: reportError('runModel/tf')
RunnerFailed(t) == [t EXCEPT !.pc = "done", !.out = "runnerfail", !.rep = "runModel"]

\* insertRun(tf, boundaryTs, source, config, output) up to its first await:
\* config is the object of settings.mtfConfigs, read now
InsertCall(t) == [t EXCEPT !.pc = "insert", !.frec = cfg[t.tf]]

\* executeRunner settles: on success lastRun[tf] = boundaryTs and insertRun is
\* called; on failure the catch block reports the error
RunnerDone(i, ok) ==
  /\ tasks[i].pc = "runner"
  /\ tasks' = Upd(i, IF ok THEN InsertCall(tasks[i])
                     ELSE RunnerFailed(tasks[i]))
  /\ lastRun' = IF ok THEN LastRunAfterRunner(i) ELSE lastRun
  /\ UNCHANGED <<now, mode, lastFired, checkTimer, leaked, inits, db, dbSeq,
                 acked, bcast, emitted, lastStart, nEv, dropped>>

\* the two queries of insertRun at the database:
\*   ok: both succeed; insfail: the INSERT fails; prunefail: the DELETE fails
\* (it always does for a timeframe RETENTION has no entry for)
DbExec(i, res) ==
  /\ tasks[i].pc = "insert"
  /\ res = "ok" => tasks[i].tf \in DOMAIN RETENTION
  /\ db' = IF res = "insfail" THEN db
           ELSE IF res = "prunefail"
                THEN Upsert(db, tasks[i].tf, tasks[i].b, tasks[i].src)
                ELSE Prune(Upsert(db, tasks[i].tf, tasks[i].b, tasks[i].src),
                           tasks[i].tf)
  /\ dbSeq' = IF res # "insfail" /\ Rows(db, tasks[i].tf, tasks[i].b, tasks[i].src) = {}
              THEN dbSeq + 1 ELSE dbSeq
  /\ tasks' = Upd(i, [tasks[i] EXCEPT
                        !.pc = "inserted",
                        !.runId = IF res = "ok"
                                  THEN UpsertId(db, tasks[i].tf, tasks[i].b, tasks[i].src)
                                  ELSE NULL])
  /\ UNCHANGED <<now, mode, lastRun, lastFired, checkTimer, leaked, inits,
                 acked, bcast, emitted, lastStart, nEv, dropped>>

\* runModel line 125: broadcast({type: 'ltf_run', ..., runId, output})
Broadcast(t) == [t EXCEPT !.nb = @ + 1, !.bid = t.runId]

\* runModel resumes after insertRun: broadcast, then postToOracle without
\* await; runModel returns
InsertResume(i) ==
  /\ tasks[i].pc = "inserted"
  /\ tasks' = Upd(i, [Broadcast(tasks[i]) EXCEPT !.pc = "oracle", !.out = "ok"])
  /\ UNCHANGED <<now, mode, lastRun, lastFired, checkTimer, leaked, inits, db,
                 dbSeq, acked, bcast, emitted, lastStart, nEv, dropped>>

\* what postToOracle does with the oracle's answer: it logs, and reads nothing
PostSettled(t, res, n) == [t EXCEPT !.pc = "done", !.ack = res, !.ackId = n]

\* postToOracle settles: ok (success status, identifier n assigned), status (a
\* non-success status) or neterr (fetch rejects)
OracleDone(i, res, n) ==
  /\ tasks[i].pc = "oracle"
  /\ (res = "ok") = (n # NULL)
  /\ acked' = IF res = "ok" THEN acked \cup {<<tasks[i].tf, tasks[i].b>>} ELSE acked
  /\ tasks' = Upd(i, PostSettled(tasks[i], res, n))
  /\ UNCHANGED <<now, mode, lastRun, lastFired, checkTimer, leaked, inits, db,
                 dbSeq, bcast, emitted, lastStart, nEv, dropped>>

\* ------------------------------------------------- initLiveScheduler
NoSeed == [tf \in InitTFSet |-> NULL]

\* a call of initLiveScheduler at await getLastRunTs(tfs[k], 'live'): the query
\* is sent (read FALSE) or answered (read TRUE, the answer in last);
\* seen is history: what the table held at each read
NewInit(origin) ==
  [k |-> 1, read |-> FALSE, last |-> NULL, initial |-> NoSeed, seen |-> NoSeed,
   origin |-> origin]

\* getLastRunTs: the newest boundary, or null (no row, or the query failed)
GetLastRunTs(tf, ok) == IF ok THEN DbMax(tf, "live") ELSE NULL

RemoveAt(q, i) == [j \in 1..(Len(q) - 1) |-> IF j < i THEN q[j] ELSE q[j + 1]]

\* the database answers the query of getLastRunTs
InitRead(i, ok) ==
  /\ ~inits[i].read
  /\ inits' = [inits EXCEPT ![i] =
       [@ EXCEPT !.read = TRUE,
                 !.last = GetLastRunTs(InitTFs[inits[i].k], ok),
                 !.seen = [@ EXCEPT ![InitTFs[inits[i].k]] = DbMax(InitTFs[inits[i].k], "live")]]]
  /\ tasks' = Reap(tasks)
  /\ UNCHANGED <<now, mode, lastRun, lastFired, checkTimer, leaked, db, dbSeq,
                 acked, bcast, emitted, lastStart, nEv, dropped>>

\* initLiveScheduler resumes with the answer for tfs[k]; after the last
\* timeframe it calls scheduler.start(initial)
InitStep(i) ==
  LET it      == inits[i]
      tf      == InitTFs[it.k]
      initial == IF it.last # NULL THEN [it.initial EXCEPT ![tf] = it.last]
                 ELSE it.initial
  IN  /\ it.read
      /\ lastRun' = IF it.last # NULL THEN [lastRun EXCEPT ![tf] = it.last] ELSE lastRun
      /\ IF it.k < Len(InitTFs)
         THEN /\ inits' = [inits EXCEPT ![i] =
                             [@ EXCEPT !.k = @ + 1, !.read = FALSE, !.last = NULL,
                                       !.initial = initial]]
              /\ tasks' = Reap(tasks)
              /\ UNCHANGED <<lastFired, checkTimer, leaked, emitted, lastStart, dropped>>
         ELSE /\ inits' = RemoveAt(inits, i)
              /\ Start(initial, it.seen, it.origin)
      /\ UNCHANGED <<now, mode, db, dbSeq, acked, bcast, nEv>>

\* an event from outside is received
Event == nEv < MaxEvents /\ nEv' = nEv + 1

\* ----------------------------------------------------- mode switching
ModeMsg(m) == [type |-> "mode", mode |-> m]

\* enablePaperMode without its first line (if (mode === 'paper') return)
PaperOnUnguarded ==
  /\ Event
  /\ mode' = "paper"
  /\ Stop
  /\ bcast' = Append(bcast, ModeMsg("paper"))
  /\ tasks' = Reap(tasks)
  /\ UNCHANGED <<now, lastRun, lastFired, leaked, inits, db, dbSeq, acked,
                 emitted, lastStart, dropped>>

\* upstream 'paperOn' -> enablePaperMode
PaperOn ==
  /\ Event
  /\ IF mode = "paper"
     THEN /\ dropped' = dropped \cup {"paperOn"}
          /\ UNCHANGED <<mode, checkTimer, bcast>>
     ELSE /\ mode' = "paper"
          /\ Stop
          /\ bcast' = Append(bcast, ModeMsg("paper"))
          /\ UNCHANGED dropped
  /\ tasks' = Reap(tasks)
  /\ UNCHANGED <<now, lastRun, lastFired, leaked, inits, db, dbSeq, acked,
                 emitted, lastStart>>

\* upstream 'paperOff' -> enableLiveMode
PaperOff ==
  /\ Event
  /\ IF mode = "live"
     THEN /\ dropped' = dropped \cup {"paperOff"}
          /\ UNCHANGED <<mode, inits, bcast>>
     ELSE /\ mode' = "live"
          /\ inits' = Append(inits, NewInit("paperOff"))
          /\ bcast' = Append(bcast, ModeMsg("live"))
          /\ UNCHANGED dropped
  /\ tasks' = Reap(tasks)
  /\ UNCHANGED <<now, lastRun, lastFired, checkTimer, leaked, db, dbSeq, acked,
                 emitted, lastStart>>

\* --------------------------------------------------- upstream events
\* upstream 'mtf_candles': dropped unless mode is paper, else runModel(.., 'paper');
\* the listener awaits runModel without a catch, so a rejection of runModel is
\* an unhandled rejection
UpstreamCandles(tf, b, empty) ==
  /\ Event
  /\ down' = (down \/ (CandlesAccepted /\ ~empty /\ tf \notin ConfigTFs))
  /\ IF CandlesAccepted
     THEN /\ tasks' = Append(Reap(tasks),
                        RunModelStart(NewTask(tf, b, "paper", "upstream", "runner"), empty))
          /\ UNCHANGED dropped
     ELSE /\ dropped' = dropped \cup {"upstream"}
          /\ tasks' = Reap(tasks)
  /\ UNCHANGED <<now, mode, lastRun, lastFired, checkTimer, leaked, inits, db,
                 dbSeq, acked, bcast, emitted, lastStart>>

\* upstream 'paper_loop': deletePaperRuns (a failed DELETE changes nothing)
PaperLoop ==
  /\ Event
  /\ db' = {r \in db : r.src # "paper"}
  /\ tasks' = Reap(tasks)
  /\ UNCHANGED <<now, mode, lastRun, lastFired, checkTimer, leaked, inits,
                 dbSeq, acked, bcast, emitted, lastStart, dropped>>

\* ------------------------------------------------------- environment
Tick ==
  /\ Event
  /\ now < MaxNow
  /\ now' = now + 1
  /\ tasks' = Reap(tasks)
  /\ UNCHANGED <<mode, lastRun, lastFired, checkTimer, leaked, inits, db,
                 dbSeq, acked, bcast, emitted, lastStart, dropped>>

\* the wall clock is set back
ClockBack ==
  /\ Event
  /\ now > 0
  /\ now' = now - 1
  /\ tasks' = Reap(tasks)
  /\ UNCHANGED <<mode, lastRun, lastFired, checkTimer, leaked, inits, db,
                 dbSeq, acked, bcast, emitted, lastStart, dropped>>

NoLastRun == [tf \in SchedTFs |-> NULL]

NoStart == [origin |-> "none", initial |-> NoSeed, seen |-> NoSeed, lf |-> NoLastRun]

\* the process stops and is started again: module state is rebuilt, start()
\* runs up to await initLiveScheduler(); the table and the oracle keep theirs
Restart ==
  /\ Event
  /\ mode' = "live"
  /\ lastRun' = NoLastRun
  /\ lastFired' = NoLastRun
  /\ checkTimer' = FALSE
  /\ leaked' = 0
  /\ inits' = <<NewInit("startup")>>
  /\ tasks' = [i \in 1..Len(Reap(tasks)) |-> [Reap(tasks)[i] EXCEPT !.pc = "killed"]]
  /\ emitted' = NoEmissions
  /\ lastStart' = NoStart
  /\ UNCHANGED <<now, db, dbSeq, acked, bcast, dropped>>

\* ------------------------------------------------------------- REST API
NoResponse == [route |-> "none", status |-> 0]

ApiIdle ==
  /\ cfg = [tf \in ConfigTFs |-> "f0"]
  /\ http = NoResponse
  /\ nReq = 0
  /\ down = FALSE

\* a request is received
Request == nReq < MaxReqs /\ nReq' = nReq + 1

\* POST /trigger/:tf: 400 for a timeframe not in VALID_TIMEFRAMES, 409 unless
\* mode is live; else statusProvider.triggerRun(tf), which index.ts does not
\* provide: the call throws a TypeError inside the try block and the route
\* answers 500
PostTrigger(tf) ==
  /\ Request
  /\ http' = [route |-> "trigger",
              status |-> IF tf \notin VALID_TIMEFRAMES THEN 400
                         ELSE IF mode # "live" THEN 409 ELSE 500]
  /\ tasks' = Reap(tasks)
  /\ UNCHANGED <<now, mode, lastRun, lastFired, checkTimer, leaked, inits, db,
                 dbSeq, acked, bcast, emitted, lastStart, nEv, dropped>>
  /\ UNCHANGED <<cfg, down, rvars, svars, qvars>>

\* PATCH /config with a timeframe and a formula: 400 for a timeframe not in
\* VALID_TIMEFRAMES, else cfg.formula is assigned on the object of
\* settings.mtfConfigs
PatchConfig(tf, f) ==
  /\ Request
  /\ IF tf \in VALID_TIMEFRAMES
     THEN /\ cfg' = [cfg EXCEPT ![tf] = f]
          /\ http' = [route |-> "config", status |-> 200]
     ELSE /\ cfg' = cfg
          /\ http' = [route |-> "config", status |-> 400]
  /\ tasks' = Reap(tasks)
  /\ UNCHANGED <<now, mode, lastRun, lastFired, checkTimer, leaked, inits, db,
                 dbSeq, acked, bcast, emitted, lastStart, nEv, dropped>>
  /\ UNCHANGED <<down, rvars, svars, qvars>>

\* ------------------------------------------------------- executeRunner
\* what the runner writes, token by token: the two braces of an object, the
\* text null, white space, and anything else
Tokens == {"{", "}", "n", " ", "x"}

\* the exit codes of a process that exits by itself
ExitCodes == {0, 1}

\* the white space trim() removes
WhiteSpace == {" ", "\n"}

RECURSIVE TrimStart(_)
TrimStart(s) == IF s # <<>> /\ Head(s) \in WhiteSpace THEN TrimStart(Tail(s)) ELSE s

RECURSIVE TrimEnd(_)
TrimEnd(s) ==
  IF s # <<>> /\ s[Len(s)] \in WhiteSpace
  THEN TrimEnd(SubSeq(s, 1, Len(s) - 1)) ELSE s

\* String.prototype.trim
Trim(s) == TrimEnd(TrimStart(s))

\* JSON.parse: the value, or a SyntaxError
JSONParse(s) ==
  IF s = <<"n">> THEN "null"
  ELSE IF /\ Len(s) >= 2 /\ s[1] = "{" /\ s[Len(s)] = "}"
          /\ \A k \in 2..(Len(s) - 1) : s[k] = " "
       THEN "object"
       ELSE "SyntaxError"

NoResult == [kind |-> "none", code |-> NULL, stderr |-> <<>>, output |-> "none"]

\* reject(new Error(...)) and resolve({output, durationMs})
Reject(kind, code, err) == [kind |-> kind, code |-> code, stderr |-> err, output |-> "none"]

Resolve(output) == [kind |-> "success", code |-> 0, stderr |-> <<>>, output |-> output]

\* the try block of the close handler: JSON.parse(stdout.trim()), then the
\* debug line reads output.runId, which throws for null; both are caught
ParseOutput(out) ==
  IF JSONParse(Trim(out)) \in {"SyntaxError", "null"}
  THEN Reject("parse", NULL, <<>>)
  ELSE Resolve(JSONParse(Trim(out)))

\* the close handler without its test of the exit code
CloseOutcomeAnyCode(code) == ParseOutput(stdout)

\* the close handler past its settled check
CloseOutcome(code) ==
  IF code # 0 THEN Reject("exit", code, Trim(stderr)) ELSE ParseOutput(stdout)

RunnerIdle ==
  /\ child = "none"
  /\ stdout = <<>>
  /\ stderr = <<>>
  /\ settled = FALSE
  /\ timeout = FALSE
  /\ result = NoResult
  /\ settles = 0

\* executeRunner without its setTimeout
ExecuteRunnerUntimed(spawned) ==
  /\ child = "none"
  /\ child' = IF spawned THEN "alive" ELSE "spawnfail"
  /\ UNCHANGED <<stdout, stderr, settled, timeout, result, settles, ovars, svars, avars, qvars>>

\* executeRunner(input): spawn (which may fail), arm the timer, write stdin
ExecuteRunner(spawned) ==
  /\ child = "none"
  /\ child' = IF spawned THEN "alive" ELSE "spawnfail"
  /\ timeout' = TRUE
  /\ UNCHANGED <<stdout, stderr, settled, result, settles, ovars, svars, avars, qvars>>

\* child.stdout.on('data'): also for what a killed process had written
StdoutData(c) ==
  /\ child \in {"alive", "killed"}
  /\ Len(stdout) < MaxOut
  /\ stdout' = Append(stdout, c)
  /\ UNCHANGED <<child, stderr, settled, timeout, result, settles, ovars, svars, avars, qvars>>

\* child.stderr.on('data')
StderrData(c) ==
  /\ child \in {"alive", "killed"}
  /\ Len(stderr) < MaxErr
  /\ stderr' = Append(stderr, c)
  /\ UNCHANGED <<child, stdout, settled, timeout, result, settles, ovars, svars, avars, qvars>>

\* the codes 'close' can carry: the exit code, or null after a signal or a
\* failed spawn
CloseCodes == IF child = "alive" THEN ExitCodes \cup {NULL} ELSE {NULL}

\* the close handler without its first line (if (settled) return)
OnCloseUnguarded(code) ==
  /\ child \in {"alive", "killed", "errored"}
  /\ code \in CloseCodes
  /\ child' = "closed"
  /\ settled' = TRUE
  /\ timeout' = FALSE
  /\ result' = CloseOutcome(code)
  /\ settles' = settles + 1
  /\ UNCHANGED <<stdout, stderr, ovars, svars, avars, qvars>>

\* child.on('close')
OnClose(code) ==
  /\ child \in {"alive", "killed", "errored"}
  /\ code \in CloseCodes
  /\ child' = "closed"
  /\ IF settled
     THEN UNCHANGED <<settled, timeout, result, settles>>
     ELSE /\ settled' = TRUE
          /\ timeout' = FALSE
          /\ result' = CloseOutcome(code)
          /\ settles' = settles + 1
  /\ UNCHANGED <<stdout, stderr, ovars, svars, avars, qvars>>

\* the error handler without its first line (if (settled) return)
OnErrorUnguarded ==
  /\ child = "spawnfail"
  /\ child' = "errored"
  /\ settled' = TRUE
  /\ timeout' = FALSE
  /\ result' = Reject("spawn", NULL, <<>>)
  /\ settles' = settles + 1
  /\ UNCHANGED <<stdout, stderr, ovars, svars, avars, qvars>>

\* child.on('error')
OnError ==
  /\ child = "spawnfail"
  /\ child' = "errored"
  /\ IF settled
     THEN UNCHANGED <<settled, timeout, result, settles>>
     ELSE /\ settled' = TRUE
          /\ timeout' = FALSE
          /\ result' = Reject("spawn", NULL, <<>>)
          /\ settles' = settles + 1
  /\ UNCHANGED <<stdout, stderr, ovars, svars, avars, qvars>>

\* child.kill('SIGKILL')
Kill == IF child = "alive" THEN "killed" ELSE child

\* the setTimeout callback
OnTimeout ==
  /\ timeout
  /\ timeout' = FALSE
  /\ IF settled
     THEN UNCHANGED <<child, settled, result, settles>>
     ELSE /\ settled' = TRUE
          /\ child' = Kill
          /\ result' = Reject("timeout", NULL, <<>>)
          /\ settles' = settles + 1
  /\ UNCHANGED <<stdout, stderr, ovars, svars, avars, qvars>>

\* ---------------------------------------------------- UnixSocketClient
\* the frame separator '\n\n'
Sep == <<"\n", "\n">>

\* the message types the sketch tells apart: 'a' stands for the type whose
\* event carries the message's payload (mtf_candles), 'b' for the types whose
\* event carries nothing
MessageTypes == {"a", "b"}

\* the bytes of the one two-byte character of the sketch (U+00E9 in UTF-8)
LeadByte == "0xC3"

ContByte == "0xA9"

\* the characters a payload is made of: U+00E9, and the replacement character
\* a decoder puts for a byte it cannot decode
PayloadChars == {"U+00E9", "U+FFFD"}

\* chunk.toString(): UTF-8 decoding of one chunk by itself; a lead byte
\* without its continuation byte in the same chunk, and a continuation byte
\* without its lead byte, each become U+FFFD
RECURSIVE Decode(_)
Decode(bytes) ==
  IF bytes = <<>> THEN <<>>
  ELSE IF Len(bytes) >= 2 /\ bytes[1] = LeadByte /\ bytes[2] = ContByte
       THEN <<"U+00E9">> \o Decode(SubSeq(bytes, 3, Len(bytes)))
  ELSE IF bytes[1] \in {LeadByte, ContByte}
       THEN <<"U+FFFD">> \o Decode(Tail(bytes))
  ELSE <<bytes[1]>> \o Decode(Tail(bytes))

\* the frames upstream writes: a message of each type, and a text JSON.parse
\* rejects
FrameTexts == {<<"{", "a", "}">>, <<"{", "b", "}">>, <<"{", "a">>,
               <<"{", "a", LeadByte, ContByte, "}">>}

Min(S) == CHOOSE x \in S : \A y \in S : x <= y

\* String.prototype.split('\n\n')
RECURSIVE Split(_)
Split(s) ==
  LET hits == {i \in 1..(Len(s) - 1) : s[i] = "\n" /\ s[i + 1] = "\n"}
  IN  IF hits = {} THEN <<s>>
      ELSE <<SubSeq(s, 1, Min(hits) - 1)>> \o Split(SubSeq(s, Min(hits) + 2, Len(s)))

\* the text is a message of the sketch: a type and a payload between braces
IsMessage(text) ==
  /\ Len(text) >= 3
  /\ text[1] = "{" /\ text[2] \in MessageTypes /\ text[Len(text)] = "}"
  /\ \A k \in 3..(Len(text) - 1) : text[k] \in PayloadChars

\* JSON.parse(trimmed) followed by handleMessage(msg) throws: a SyntaxError,
\* or the TypeError of reading null.type
Throws(text) == ~IsMessage(text) /\ JSONParse(text) # "object"

\* handleMessage: the events emitted for a parsed message (none for a type
\* without a case), the event of type 'a' followed by its payload
HandleMessage(text) ==
  IF ~IsMessage(text) THEN <<>>
  ELSE IF text[2] = "a" THEN <<"a">> \o SubSeq(text, 3, Len(text) - 1)
  ELSE <<text[2]>>

\* the loop of drain() with an exception leaving the loop
RECURSIVE DrainPartsUncaught(_)
DrainPartsUncaught(parts) ==
  IF parts = <<>> THEN <<>>
  ELSE IF Trim(Head(parts)) = <<>> THEN DrainPartsUncaught(Tail(parts))
  ELSE IF Throws(Trim(Head(parts))) THEN <<>>
  ELSE HandleMessage(Trim(Head(parts))) \o DrainPartsUncaught(Tail(parts))

\* the loop of drain(): the events emitted for the complete frames, and a
\* "warn" for each logger.warn of the catch block
RECURSIVE DrainParts(_)
DrainParts(parts) ==
  IF parts = <<>> THEN <<>>
  ELSE IF Trim(Head(parts)) = <<>> THEN DrainParts(Tail(parts))
  ELSE IF Throws(Trim(Head(parts))) THEN <<"warn">> \o DrainParts(Tail(parts))
  ELSE HandleMessage(Trim(Head(parts))) \o DrainParts(Tail(parts))

\* the client's fields and what the runtime holds for it, before a handler runs
Client ==
  [socket |-> socket, partial |-> partial, reconnectTimer |-> reconnectTimer,
   connected |-> connected, socks |-> socks, timers |-> timers, emits |-> <<>>]

\* the client after a handler has run
Becomes(c) ==
  /\ socket' = c.socket
  /\ partial' = c.partial
  /\ reconnectTimer' = c.reconnectTimer
  /\ connected' = c.connected
  /\ socks' = c.socks
  /\ timers' = c.timers
  /\ emits' = c.emits

\* scheduleReconnect without its first line (if (this.reconnectTimer) return)
ScheduleAnother(c) == [c EXCEPT !.reconnectTimer = TRUE, !.timers = @ + 1]

\* scheduleReconnect()
ScheduleReconnect(c) ==
  IF c.reconnectTimer THEN c
  ELSE [c EXCEPT !.reconnectTimer = TRUE, !.timers = @ + 1]

\* connect()
DoConnect(c) ==
  IF c.socket # NULL THEN c
  ELSE [c EXCEPT !.socks = Append(@, "opening"), !.socket = Len(c.socks) + 1]

\* this.socket?.destroy()
Destroy(c) ==
  IF c.socket # NULL /\ c.socks[c.socket] \in {"opening", "open"}
  THEN [c EXCEPT !.socks[c.socket] = "destroyed"]
  ELSE c

\* socket.on('connect')
ConnectHandler(c) ==
  [c EXCEPT !.connected = TRUE, !.partial = <<>>, !.emits = Append(@, "connected")]

\* socket.on('data'): this.partial += chunk.toString(); this.drain()
DataHandler(c, chunk) ==
  LET parts == Split(c.partial \o Decode(chunk))
  IN  [c EXCEPT !.partial = parts[Len(parts)],
                !.emits = @ \o DrainParts(SubSeq(parts, 1, Len(parts) - 1))]

\* socket.on('close')
CloseHandler(c) ==
  ScheduleReconnect([c EXCEPT !.connected = FALSE, !.socket = NULL,
                              !.emits = Append(@, "disconnected")])

\* socket.on('error')
ErrorHandler(c) ==
  ScheduleReconnect([Destroy(c) EXCEPT !.socket = NULL, !.connected = FALSE])

\* the callback of the reconnect timer
ReconnectCallback(c) == DoConnect([c EXCEPT !.reconnectTimer = FALSE, !.timers = @ - 1])

\* close()
DoClose(c) ==
  LET c1 == IF c.reconnectTimer
            THEN [c EXCEPT !.reconnectTimer = FALSE, !.timers = @ - 1] ELSE c
  IN  [Destroy(c1) EXCEPT !.socket = NULL, !.connected = FALSE]

ClientIdle ==
  /\ socket = NULL
  /\ partial = <<>>
  /\ reconnectTimer = FALSE
  /\ connected = FALSE
  /\ socks = <<>>
  /\ timers = 0
  /\ emits = <<>>
  /\ rx = <<>>
  /\ got = <<>>
  /\ wire = <<>>
  /\ nSent = 0
  /\ nCalls = 0
  /\ closing = FALSE

\* the owner calls connect()
Connect ==
  /\ nCalls < MaxCalls
  /\ socket # NULL \/ Len(socks) < MaxSocks
  /\ nCalls' = nCalls + 1
  /\ closing' = FALSE
  /\ Becomes(DoConnect(Client))
  /\ UNCHANGED <<wire, nSent, rx, got, ovars, rvars, avars, qvars>>

\* the owner calls close()
Close ==
  /\ nCalls < MaxCalls
  /\ nCalls' = nCalls + 1
  /\ closing' = TRUE
  /\ Becomes(DoClose(Client))
  /\ UNCHANGED <<wire, nSent, rx, got, ovars, rvars, avars, qvars>>

\* socket object s emits 'connect'
SockConnect(s) ==
  /\ socks[s] = "opening"
  /\ Becomes(ConnectHandler([Client EXCEPT !.socks[s] = "open"]))
  /\ rx' = <<>>
  /\ got' = <<>>
  /\ UNCHANGED <<wire, nSent, nCalls, closing, ovars, rvars, avars, qvars>>

\* upstream writes a frame and its separator
Send(text) ==
  /\ nSent < MaxFrames
  /\ nSent' = nSent + 1
  /\ wire' = wire \o text \o Sep
  /\ emits' = <<>>
  /\ UNCHANGED <<socket, partial, reconnectTimer, connected, socks, timers,
                 nCalls, closing, rx, got, ovars, rvars, avars, qvars>>

\* socket object s emits 'data' with the next n characters
SockData(s, n) ==
  /\ socks[s] = "open"
  /\ n <= Len(wire)
  /\ wire' = SubSeq(wire, n + 1, Len(wire))
  /\ Becomes(DataHandler(Client, SubSeq(wire, 1, n)))
  /\ rx' = rx \o SubSeq(wire, 1, n)
  /\ got' = got \o SelectSeq(emits', LAMBDA e : e # "warn")
  /\ UNCHANGED <<nSent, nCalls, closing, ovars, rvars, avars, qvars>>

\* socket object s emits 'close': the peer ended it, or it had been destroyed
SockClose(s) ==
  /\ socks[s] \in {"open", "destroyed"}
  /\ Becomes(CloseHandler([Client EXCEPT !.socks[s] = "closed"]))
  /\ UNCHANGED <<wire, nSent, nCalls, closing, rx, got, ovars, rvars, avars, qvars>>

\* socket object s fails: the runtime emits 'error' and then 'close' for it
\* in one turn
SockError(s) ==
  /\ socks[s] \in {"opening", "open"}
  /\ Becomes(CloseHandler([ErrorHandler(Client) EXCEPT !.socks[s] = "closed"]))
  /\ UNCHANGED <<wire, nSent, nCalls, closing, rx, got, ovars, rvars, avars, qvars>>

\* a pending reconnect timeout fires
ReconnectFire ==
  /\ timers > 0
  /\ socket # NULL \/ Len(socks) < MaxSocks
  /\ Becomes(ReconnectCallback(Client))
  /\ UNCHANGED <<wire, nSent, nCalls, closing, rx, got, ovars, rvars, avars, qvars>>

\* what ss_model_runs can hold when the process starts: nothing, or the live
\* run of the boundary before, left (and acknowledged) in an earlier life of
\* the process
PriorRuns ==
  {{}, {[id |-> 1, tf |-> "15m", b |-> StartNow - 1, src |-> "live", upd |-> FALSE]}}

Init ==
  /\ now = StartNow
  /\ mode = "live"
  /\ lastRun = NoLastRun
  /\ lastFired = NoLastRun
  /\ checkTimer = FALSE
  /\ leaked = 0
  /\ inits = <<NewInit("startup")>>
  /\ tasks = <<>>
  /\ db \in PriorRuns
  /\ dbSeq = Cardinality(db)
  /\ acked = {<<r.tf, r.b>> : r \in db}
  /\ bcast = <<>>
  /\ emitted = NoEmissions
  /\ lastStart = NoStart
  /\ nEv = 0
  /\ dropped = {}
  /\ RunnerIdle
  /\ ClientIdle
  /\ ApiIdle
  /\ OwnerIdle

\* POST /trigger/:tf is no step: createRouter is given no triggerRun
\* (index.ts 215-219), so the route starts no run and changes no state
Next ==
  \/ TimerFire /\ UNCHANGED xvars
  \/ \E i \in 1..Len(inits), ok \in BOOLEAN : InitRead(i, ok) /\ UNCHANGED xvars
  \/ \E i \in 1..Len(inits) : InitStep(i) /\ UNCHANGED xvars
  \/ \E i \in 1..Len(tasks), ok \in BOOLEAN, empty \in BOOLEAN :
        FetchDone(i, ok, empty) /\ UNCHANGED xvars
  \/ \E i \in 1..Len(tasks), ok \in BOOLEAN : RunnerDone(i, ok) /\ UNCHANGED xvars
  \/ \E i \in 1..Len(tasks), res \in {"ok", "insfail", "prunefail"} :
        DbExec(i, res) /\ UNCHANGED xvars
  \/ \E i \in 1..Len(tasks) : InsertResume(i) /\ UNCHANGED xvars
  \/ \E i \in 1..Len(tasks), res \in {"ok", "status", "neterr"},
        n \in OracleIds \cup {NULL} : OracleDone(i, res, n) /\ UNCHANGED xvars
  \/ PaperOn /\ UNCHANGED xvars
  \/ PaperOff /\ UNCHANGED xvars
  \/ \E tf \in UpstreamTFs, b \in 1..MaxNow, empty \in BOOLEAN :
        UpstreamCandles(tf, b, empty) /\ UNCHANGED xvars
  \/ PaperLoop /\ UNCHANGED xvars
  \/ Tick /\ UNCHANGED xvars
  \/ ClockBack /\ UNCHANGED xvars
  \/ Restart /\ UNCHANGED xvars

Spec == Init /\ [][Next]_vars

\* one call of executeRunner and all that can happen to it
RunnerNext ==
  \/ \E spawned \in BOOLEAN : ExecuteRunner(spawned)
  \/ \E c \in Tokens : StdoutData(c)
  \/ \E c \in {"e", " "} : StderrData(c)
  \/ \E code \in ExitCodes \cup {NULL} : OnClose(code)
  \/ OnError
  \/ OnTimeout

RunnerInit == Init /\ db = {}

RunnerSpec == RunnerInit /\ [][RunnerNext]_vars

\* the timer armed by setTimeout fires unless it is cleared
RunnerFairSpec == RunnerSpec /\ WF_vars(OnTimeout)

\* one UnixSocketClient, its owner, its sockets and upstream
ClientNext ==
  \/ Connect
  \/ Close
  \/ \E s \in 1..Len(socks) : SockConnect(s)
  \/ \E text \in FrameTexts : Send(text)
  \/ \E s \in 1..Len(socks), n \in 1..Len(wire) : SockData(s, n)
  \/ \E s \in 1..Len(socks) : SockClose(s)
  \/ \E s \in 1..Len(socks) : SockError(s)
  \/ ReconnectFire

ClientInit == Init /\ db = {}

ClientSpec == ClientInit /\ [][ClientNext]_vars

\* the process in service, the clock standing still: the scheduler's first
\* cycle, the runs, the switch to paper mode, candle batches naming any
\* timeframe, and the REST API; nothing happens in a process that has gone down
ServiceNext ==
  \/ ~down /\ (\E i \in 1..Len(inits) : InitRead(i, TRUE)) /\ UNCHANGED xvars
  \/ ~down /\ (\E i \in 1..Len(inits) : InitStep(i)) /\ UNCHANGED xvars
  \/ ~down /\ (\E i \in 1..Len(tasks), ok \in BOOLEAN : FetchDone(i, ok, FALSE))
           /\ UNCHANGED xvars
  \/ ~down /\ (\E i \in 1..Len(tasks), ok \in BOOLEAN : RunnerDone(i, ok))
           /\ UNCHANGED xvars
  \/ ~down /\ (\E i \in 1..Len(tasks), res \in {"ok", "insfail"} : DbExec(i, res))
           /\ UNCHANGED xvars
  \/ ~down /\ (\E i \in 1..Len(tasks) : InsertResume(i)) /\ UNCHANGED xvars
  \/ ~down /\ (\E i \in 1..Len(tasks) : OracleDone(i, "neterr", NULL))
           /\ UNCHANGED xvars
  \/ ~down /\ PaperOn /\ UNCHANGED xvars
  \/ ~down /\ (\E tf \in AnyTFs : UpstreamCandles(tf, 1, FALSE))
           /\ UNCHANGED <<cfg, http, nReq, rvars, svars, qvars>>
  \/ ~down /\ (\E tf \in AnyTFs : PostTrigger(tf))
  \/ ~down /\ (\E tf \in AnyTFs, f \in Formulas : PatchConfig(tf, f))

ServiceSpec == Init /\ [][ServiceNext]_vars

\* one LiveScheduler with its 'trigger' listener, the clock, and an owner
\* calling start(), stop() and markFired()
SchedNext ==
  \/ \E initial \in {NoSeed, [tf \in InitTFSet |-> 1]} : OwnerStart(initial)
  \/ OwnerStop
  \/ \E tf \in SchedTFs, b \in 1..MaxNow : MarkFired(tf, b)
  \/ TimerFire /\ UNCHANGED xvars
  \/ Tick /\ UNCHANGED xvars

SchedSpec == Init /\ [][SchedNext]_vars

\* the completions of I/O the runtime delivers, and the interval callback it
\* keeps calling: none of them is postponed for ever.  Events from outside
\* carry no such promise.
FairSpec ==
  /\ Spec
  /\ WF_vars((TimerFire) /\ UNCHANGED xvars)
  /\ WF_vars((\E i \in 1..Len(inits), ok \in BOOLEAN : InitRead(i, ok)) /\ UNCHANGED xvars)
  /\ WF_vars((\E i \in 1..Len(inits) : InitStep(i)) /\ UNCHANGED xvars)
  /\ WF_vars((\E i \in 1..Len(tasks), ok \in BOOLEAN, empty \in BOOLEAN : FetchDone(i, ok, empty)) /\ UNCHANGED xvars)
  /\ WF_vars((\E i \in 1..Len(tasks), ok \in BOOLEAN : RunnerDone(i, ok)) /\ UNCHANGED xvars)
  /\ WF_vars((\E i \in 1..Len(tasks), res \in {"ok", "insfail", "prunefail"} : DbExec(i, res)) /\ UNCHANGED xvars)
  /\ WF_vars((\E i \in 1..Len(tasks) : InsertResume(i)) /\ UNCHANGED xvars)
  /\ WF_vars((\E i \in 1..Len(tasks), res \in {"ok", "status", "neterr"},
                n \in OracleIds \cup {NULL} : OracleDone(i, res, n)) /\ UNCHANGED xvars)

\* ================================================================ properties
Tasks == {tasks[i] : i \in 1..Len(tasks)}

\* the runs this step starts
Started == {tasks'[j] : j \in (Len(Reap(tasks)) + 1)..Len(tasks')}

\* the step is a start of the process
ProcessStarts ==
  /\ nEv' = nEv + 1
  /\ inits' = <<NewInit("startup")>>
  /\ lastRun' = NoLastRun
  /\ lastFired' = NoLastRun

\* C1 (commit gate): in no reachable state is lastRun[tf] a boundary whose
\* envelope the oracle has not acknowledged -- nor, read with the run table as
\* the acknowledging side, one no row records
C1_CommitGate ==
  \A tf \in SchedTFs :
    lastRun[tf] # NULL =>
      \/ <<tf, lastRun[tf]>> \in acked
      \/ \E r \in db : r.tf = tf /\ r.b = lastRun[tf]

\* C2: a run whose runner succeeded and whose post to the oracle failed (a
\* network error or a non-success status) has made exactly one run broadcast,
\* with a null identifier, and has called reportError
C2_UnackedRun ==
  \A t \in Tasks :
    (t.pc = "done" /\ t.ack \in {"status", "neterr"}) =>
      (t.nb = 1 /\ t.bid = NULL /\ t.rep # "")

\* C3: a run of (tf, boundary) whose post the oracle answered with success and
\* identifier N leaves lastRun[tf] = boundary, and its run broadcast carried N
C3_AckedRun ==
  \A t \in Tasks :
    (t.pc = "done" /\ t.ack = "ok") =>
      (lastRun[t.tf] = t.b /\ t.nb = 1 /\ t.bid = t.ackId)

\* C4: within one life of the process no step replaces lastRun[tf] with a
\* smaller boundary
C4_LastRunMonotone ==
  [][ProcessStarts \/
      \A tf \in SchedTFs :
        lastRun[tf] # NULL => (lastRun'[tf] # NULL /\ lastRun'[tf] >= lastRun[tf])]_vars

\* C5 (at least once): a live run of (tf, boundary) that ended without
\* acknowledgment (the candle fetch failed, the runner failed, or the post to
\* the oracle failed) is followed by the acknowledgment of that boundary or by
\* another run of it
C5_AtLeastOnce ==
  \A tf \in BINANCE_INTERVAL, b \in 0..MaxNow :
    (\E t \in Tasks : /\ t.tf = tf /\ t.b = b /\ t.src = "live"
                      /\ t.pc = "done"
                      /\ \/ t.out \in {"fetchfail", "runnerfail"}
                         \/ t.ack \in {"status", "neterr"})
      ~> (\/ <<tf, b>> \in acked
          \/ \E t \in Tasks : t.tf = tf /\ t.b = b /\ t.src = "live" /\ Alive(t))

C8_TriggerWiring ==
  [][/\ \A t \in Started :
          /\ t.via = "sched" =>
               (mode = "live" /\ emitted'[t.tf] # <<>>
                  /\ emitted'[t.tf][Len(emitted'[t.tf])] = t.b)
          /\ t.via = "upstream" => (mode = "paper" /\ nEv' = nEv + 1)
     /\ mode' # mode => Started = {}]_vars

\* a scheduler trigger has been dropped in paper mode and an upstream candle
\* event in live mode
C8_BothDropped == {"sched", "upstream"} \subseteq dropped

\* the state the mode handlers and the scheduler's timer work on
ModeState == <<mode, checkTimer, leaked, lastFired, lastRun, inits, bcast, emitted, lastStart>>

C10_Reseeded ==
  lastStart.origin = "paperOff" =>
    \A tf \in InitTFSet :
      lastStart.seen[tf] # NULL =>
        /\ lastStart.lf[tf] = lastStart.seen[tf]
        /\ \A i \in 1..Len(emitted[tf]) : emitted[tf][i] > lastStart.seen[tf]

\* C11 (restart catch-up): in the scheduler cycle begun by the start() of a
\* process start, a timeframe whose last live boundary T the run table held
\* has been emitted only for boundaries greater than T
C11_CatchUp ==
  lastStart.origin = "startup" =>
    \A tf \in InitTFSet :
      lastStart.seen[tf] # NULL =>
        \A i \in 1..Len(emitted[tf]) : emitted[tf][i] > lastStart.seen[tf]

\* C12: a runModel given no candles is over in the step that calls it: it
\* never reaches the runner, and that step leaves lastRun, the run table and
\* the oracle as they are and broadcasts nothing
C12_EmptyCandles ==
  [][\A j \in 1..Len(tasks') :
        tasks'[j].empty =>
          /\ tasks'[j].pc = "done" /\ tasks'[j].nb = 0 /\ tasks'[j].ack = "none"
          /\ UNCHANGED <<lastRun, db, dbSeq, acked, bcast>>]_vars

\* a runModel has been called with no candles
C12_EmptyRun == \E t \in Tasks : t.empty

\* C13: the step in which executeRunner rejects ends the run: reportError is
\* called for runModel, and lastRun, the run table and the oracle are left as
\* they are and nothing is broadcast
C13_RunnerFailure ==
  [][\A j \in 1..Len(tasks') :
        tasks'[j].out = "runnerfail" =>
          /\ tasks'[j].pc = "done" /\ tasks'[j].rep = "runModel"
          /\ tasks'[j].nb = 0 /\ tasks'[j].runId = NULL /\ tasks'[j].ack = "none"
          /\ UNCHANGED <<lastRun, db, dbSeq, acked, bcast>>]_vars

\* a run has ended with the runner failing
C13_RunnerFailed == \E t \in Tasks : t.out = "runnerfail"

\* C14: a timeout that fires before the call is settled kills the process and
\* rejects with the timeout error, and a call rejected with the timeout error
\* keeps that result, without output, whatever is read or closed afterwards
C14_Timeout ==
  [][/\ (OnTimeout /\ ~settled) =>
          (result' = Reject("timeout", NULL, <<>>) /\ child' # "alive")
     /\ result.kind = "timeout" => result' = result]_vars

\* after the timeout more output has been read and the killed process has closed
C14_LateClose ==
  /\ result.kind = "timeout"
  /\ child = "closed"
  /\ JSONParse(Trim(stdout)) = "object"

\* the event that settles a call decides its outcome: 'error' gives the spawn
\* failure; 'close' gives the exit failure with code and trimmed stderr for a
\* code other than 0, and for code 0 the parse failure if JSON.parse of the
\* trimmed stdout gives one of unusable, else the success with its value
Classified(unusable) ==
  /\ (OnError /\ ~settled) => result' = Reject("spawn", NULL, <<>>)
  /\ \A code \in ExitCodes \cup {NULL} :
       (OnClose(code) /\ ~settled) =>
          result' = IF code # 0 THEN Reject("exit", code, Trim(stderr))
                    ELSE IF JSONParse(Trim(stdout)) \in unusable
                         THEN Reject("parse", NULL, <<>>)
                         ELSE Resolve(JSONParse(Trim(stdout)))

\* C15 as stated: code 0 with output that is not valid JSON is the parse
\* failure, code 0 with valid JSON is the success with the parsed value
C15_FourOutcomes ==
  [][Classified({"SyntaxError"})]_vars

\* C15, amended: code 0 with output that is not valid JSON, or that is the
\* JSON value null, is the parse failure; code 0 with any other valid JSON is
\* the success with the parsed value
C15_FourOutcomesNull ==
  [][Classified({"SyntaxError", "null"})]_vars

\* a runner that exited with code 0 having written null was rejected
C15_NullRejected ==
  /\ child = "closed"
  /\ result.kind = "parse"
  /\ JSONParse(Trim(stdout)) = "null"

Live == {s \in 1..Len(socks) : socks[s] \in {"opening", "open"}}

\* the message events of a step, without their payloads and the warnings logged
Events(es) == SelectSeq(es, LAMBDA e : e \in MessageTypes)

\* C17: after close() has returned and until connect() is called again, no
\* reconnect timer is pending and the client has no connecting or connected
\* socket, whatever the order of the sockets' close and error events.
C17_ClosedStaysClosed ==
  closing => /\ timers = 0
             /\ ~reconnectTimer
             /\ Live = {}

\* C18: a step in which a socket closes or fails leaves the client
\* disconnected, emits one 'disconnected' event and leaves a reconnect timer
\* pending; no state has more than one reconnect timer pending.
C18_OneReconnect ==
  /\ [](timers <= 1)
  /\ [][(\E s \in 1..Len(socks) : SockClose(s) \/ SockError(s))
          => /\ ~connected'
             /\ emits' = <<"disconnected">>
             /\ reconnectTimer'
             /\ timers' = 1]_vars

\* C18 witness: a second socket has closed while the reconnect timer of the
\* first was pending.
C18_ClosedTwice ==
  /\ Cardinality({s \in 1..Len(socks) : socks[s] = "closed"}) >= 2
  /\ emits = <<"disconnected">>
  /\ reconnectTimer
  /\ timers = 1
  /\ ~connected

\* C19: at most one socket is connecting or connected, and it is the one the
\* client holds in its socket field.
C19_SingleSocket ==
  /\ Cardinality(Live) <= 1
  /\ \A s \in Live : socket = s

\* C20: a 'data' step emits, in stream order, exactly the events of the
\* complete frames that are valid messages (a frame JSON.parse rejects
\* contributes none) and leaves the connection state as it was.
C20_BadFrameDropped ==
  [][\A s \in 1..Len(socks), n \in 1..Len(wire) :
       SockData(s, n) =>
         LET parts == Split(partial \o Decode(SubSeq(wire, 1, n)))
             good  == SelectSeq(SubSeq(parts, 1, Len(parts) - 1),
                        LAMBDA f : /\ Len(Trim(f)) >= 3
                                   /\ Trim(f)[1] = "{"
                                   /\ Trim(f)[2] \in MessageTypes
                                   /\ Trim(f)[Len(Trim(f))] = "}"
                                   /\ \A k \in 3..(Len(Trim(f)) - 1) :
                                        Trim(f)[k] \in PayloadChars)
         IN  /\ Events(emits') = [i \in 1..Len(good) |-> Trim(good[i])[2]]
             /\ UNCHANGED <<socket, connected, reconnectTimer, timers, socks>>]_vars

\* C20 witness: one 'data' event carried an unparsable frame and then a valid
\* one; the first was logged and dropped, the second dispatched.
C20_DroppedThenDispatched ==
  /\ emits \in {<<"warn", "a">>, <<"warn", "b">>}
  /\ connected
  /\ socket # NULL

\* C21: a POST /trigger/:tf for a valid timeframe starts a live run of that
\* timeframe while mode is live; while mode is paper it is answered 409, starts
\* no run and changes no state.
C21_ManualTrigger ==
  [][\A tf \in VALID_TIMEFRAMES :
       PostTrigger(tf) =>
         IF mode = "live"
         THEN \E t \in Started : t.tf = tf /\ t.src = "live"
         ELSE /\ http'.status = 409
              /\ Started = {}
              /\ UNCHANGED <<mode, lastRun, lastFired, checkTimer, leaked, inits,
                             db, dbSeq, acked, bcast, emitted, cfg>>]_vars

\* C22: no rejection of runModel or of a trigger handler is left unhandled:
\* the process does not go down.
C22_NoEscape == ~down

\* C26: the formula a run hands to insertRun is the formula its runner input
\* was built with.
C26_ConfigSnapshot ==
  \A t \in Tasks : t.frec # "" => t.frec = t.fin

\* C23: a step of a paper run leaves the last-run values and the rows of
\* source live as they are, and a step of a live run leaves the rows of source
\* paper as they are.
C23_Independent ==
  [][\A i \in 1..Len(tasks) :
       /\ tasks[i].src = "paper" =>
            /\ \A ok \in BOOLEAN : RunnerDone(i, ok) => lastRun' = lastRun
            /\ \A res \in {"ok", "insfail", "prunefail"} :
                 DbExec(i, res) =>
                   {r \in db' : r.src = "live"} = {r \in db : r.src = "live"}
       /\ tasks[i].src = "live" =>
            \A res \in {"ok", "insfail", "prunefail"} :
              DbExec(i, res) =>
                {r \in db' : r.src = "paper"} = {r \in db : r.src = "paper"}]_vars

InRun(t) == t.pc \in {"runner", "insert", "inserted"}

\* C25: no two runs of one (timeframe, source) are inside runModel together.
C25_NoOverlap ==
  \A i, j \in 1..Len(tasks) :
    (i < j /\ InRun(tasks[i]) /\ InRun(tasks[j])) =>
      ~(tasks[i].tf = tasks[j].tf /\ tasks[i].src = tasks[j].src)

\* C29: an interval of the scheduler is armed only while mode is live, and at
\* most one is armed.
C29_TimerOnlyLive ==
  /\ (checkTimer \/ leaked > 0) => mode = "live"
  /\ (IF checkTimer THEN 1 ELSE 0) + leaked <= 1

\* C27: between a stop() and the next start() no trigger is emitted.
C27_StopHalts ==
  [][(stopped /\ stopped') => emitted' = emitted]_vars

\* C28: within one cycle of the scheduler (from a start() on), a check that
\* follows markFired(tf, b) emits for tf only boundaries greater than b, and no
\* boundary is emitted twice for a timeframe.
C28_MarkFired ==
  /\ [](\A tf \in SchedTFs :
         \A i, j \in 1..Len(emitted[tf]) : i # j => emitted[tf][i] # emitted[tf][j])
  /\ [][\A tf \in SchedTFs :
          (marked[tf] # NULL /\ marked'[tf] = marked[tf]
             /\ Len(emitted'[tf]) > Len(emitted[tf]))
            => emitted'[tf][Len(emitted'[tf])] > marked[tf]]_vars

\* C30: resolve and reject are called at most once in all, and once the call
\* is settled no timeout, close or error changes its outcome.
C30_SettlesOnce ==
  /\ [](settles <= 1)
  /\ [][settled => (settled' /\ result' = result)]_vars

\* C30 witness: the spawn failed, the timer fired first and decided the
\* outcome, and the error event came after it.
C30_TimeoutThenError ==
  /\ child = "errored"
  /\ result.kind = "timeout"
  /\ settles = 1

\* C31: on the client's first and only connection, the messages dispatched for the chunks received
\* so far are the messages the complete frames of their concatenation, decoded
\* as one chunk, give, and the text after the last delimiter is held back in
\* partial.
C31_ChunkingIndependent ==
  (Len(socks) = 1 /\ socks[1] = "open") =>
    LET parts == Split(Decode(rx))
    IN  /\ got = SelectSeq(DrainParts(SubSeq(parts, 1, Len(parts) - 1)),
                           LAMBDA e : e # "warn")
        /\ partial = parts[Len(parts)]

\* C32: a step that takes a live run into the runner, or commits its boundary
\* to lastRun or its result to the run table, is taken in live mode.
C32_LiveOnlyInLiveMode ==
  [][\A i \in 1..Len(tasks) :
       (/\ tasks[i].src = "live"
        /\ \/ FetchDone(i, TRUE, FALSE)
           \/ RunnerDone(i, TRUE)
           \/ \E res \in {"ok", "prunefail"} : DbExec(i, res))
         => mode = "live"]_vars

====
